---------------------------- MODULE Spec2Model ----------------------------
(***************************************************************************)
(* Model of the type-erased Parameter container (ie_rtti.cpp), of          *)
(* Precision::hasStorageType (ie_rtti.cpp) and of the control flow of the  *)
(* classification_sample_async sample (main.cpp), with its input-fill     *)
(* loop.                                                                   *)
(*                                                                         *)
(* ie_rtti.cpp defines ~Parameter, Parameter::is<T>, RealData<T>::is and   *)
(* RealData<T>::operator==.  The rest of the Parameter class (constructors,*)
(* copy, clear, empty, as<T>, Parameter::operator==) lives in              *)
(* ie_parameter.hpp, which is not part of the sources at hand; those       *)
(* operations are modelled from the specification's section 4.1.           *)
(***************************************************************************)
EXTENDS Integers, Sequences, FiniteSets, TLC

VARIABLES alive, ptr, heap, blobs, doubleFree, copyLink, last

varsP == <<alive, ptr, heap, blobs, doubleFree, copyLink, last>>

\* The sample's main(): position, engine calls made so far, return value, the
\* call that threw, and the locals that steer it.
VARIABLES pc, trace, ret, thrownBy, nInputs, nImages, outputs, outIdx,
          firstOutputName, outputDims, total

varsM == <<pc, trace, ret, thrownBy, nInputs, nImages, outputs, outIdx,
           firstOutputName, outputDims, total>>

\* One call of Precision::hasStorageType<T>(typeName): its inputs and result.
VARIABLES hs

varsH == <<hs>>

\* The input-fill loop of main(): its position, its locals and the input
\* blob's buffer.
VARIABLES fl

varsF == <<fl>>

\* What the operations of each part leave alone.
othersP == <<varsM, varsH, varsF>>
othersM == <<varsP, varsH, varsF>>
othersH == <<varsP, varsM, varsF>>
othersF == <<varsP, varsM, varsH>>

(***************************************************************************)
(* Bounds of the model.                                                    *)
(***************************************************************************)
MaxVal == 1
MaxLen == 1
MaxBlobs == 1
MaxCells == 2
MaxInputs == 2
MaxOutputs == 2
MaxRank == 4
MaxDim == 2
MaxImages == 2
MaxChannels == 3
MaxHeight == 2
MaxWidth == 2

Params == {"a", "b"}
NULL == 0
Cells == 1..MaxCells
BlobIds == 1..MaxBlobs
Bytes == {0, 1}

(***************************************************************************)
(* Types.  HeldTypes are spellings of RealData<T> instantiations,          *)
(* QueryTypes are spellings of is<T> instantiations.                       *)
(***************************************************************************)
HeldTypes ==
  {"int", "float", "uint32_t", "std::vector<int>", "Blob::Ptr"}

QueryTypes ==
  {"int", "unsigned int", "uint32_t", "float", "unsigned long", "std::vector<int>",
   "std::shared_ptr<Blob>", "std::shared_ptr<Blob const>"}

\* Typedef resolution: the type a spelling denotes.
Underlying(T) ==
  CASE T = "uint32_t" -> "unsigned int"
    [] T = "Blob::Ptr" -> "std::shared_ptr<Blob>"
    [] OTHER -> T

NumericTypes == {"int", "float", "unsigned int", "unsigned long"}

\* typeid(T): the std::type_info of the denoted type, by its mangled name.
TypeId(T) ==
  CASE Underlying(T) = "int" -> "i"
    [] Underlying(T) = "unsigned int" -> "j"
    [] Underlying(T) = "float" -> "f"
    [] Underlying(T) = "unsigned long" -> "m"
    [] Underlying(T) = "std::vector<int>" -> "NSt3__16vectorIiNS_9allocatorIiEEEE"
    [] Underlying(T) = "std::shared_ptr<Blob>" -> "NSt3__110shared_ptrIN15InferenceEngine4BlobEEE"
    [] Underlying(T) = "std::shared_ptr<Blob const>" -> "NSt3__110shared_ptrIKN15InferenceEngine4BlobEEE"

RECURSIVE SeqsUpTo(_, _)
SeqsUpTo(S, n) ==
  IF n = 0 THEN {<<>>}
  ELSE LET shorter == SeqsUpTo(S, n - 1)
       IN  shorter \cup {Append(s, x) : s \in {t \in shorter : Len(t) = n - 1}, x \in S}

\* The values of a type, within the bounds.  A Blob::Ptr is a blob id, 0 = nullptr.
Values(T) ==
  CASE Underlying(T) \in NumericTypes -> 0..MaxVal
    [] Underlying(T) = "std::vector<int>" -> SeqsUpTo(1..MaxVal, MaxLen)
    [] Underlying(T) = "std::shared_ptr<Blob>" -> 0..MaxBlobs

\* A freed or never allocated cell.
FREE == [type |-> "free", val |-> 0]

Allocated(c) == heap[c].type # "free"

(***************************************************************************)
(* Queries.                                                                *)
(***************************************************************************)
\* Parameter::empty(): nullptr == ptr.
empty(p) == ptr[p] = NULL

\* Mutants of RealData<T>::is: a match up to numeric conversion; an inverted test.
RealDataIs_Convertible(this, id) ==
  \/ id = TypeId(this.type)
  \/ this.type \in NumericTypes /\ id \in {TypeId(N) : N \in NumericTypes}

RealDataIs_Negated(this, id) == id # TypeId(this.type)

\* RealData<T>::is(id): id == typeid(T); this is the cell, a RealData<this.type>.
RealDataIs(this, id) == id = TypeId(this.type)

\* Mutants of Parameter::is<T>: the type test dropped; only the size of T tested.
ParameterIs_IgnoresType(p, T) == ~empty(p)

ParameterIs_BySize(p, T) ==
  IF empty(p) THEN FALSE
  ELSE \/ RealDataIs(heap[ptr[p]], TypeId(T))
       \/ {heap[ptr[p]].type, Underlying(T)} \subseteq {"int", "unsigned int", "float"}

\* Parameter::is<T>(): empty() ? false : ptr->is(typeid(T)).
ParameterIs(p, T) ==
  IF empty(p) THEN FALSE ELSE RealDataIs(heap[ptr[p]], TypeId(T))

\* RealData<T>::equal<T>(left, rhs): both sides are cast to RealData<T> (a failed
\* cast throws) and the held values are compared with T's operator==.
equal(left, rhs) ==
  IF left.type # rhs.type THEN "bad_cast"
  ELSE IF left.val = rhs.val THEN "true" ELSE "false"

\* Mutants of RealData<T>::operator==: the type test dropped; the value test
\* inverted.
RealDataEq_NoTypeCheck(this, rhs) == equal(this, rhs)

RealDataEq_Inverted(this, rhs) ==
  IF RealDataIs(rhs, TypeId(this.type))
  THEN (IF equal(this, rhs) = "true" THEN "false" ELSE "true")
  ELSE "false"

\* RealData<T>::operator==(rhs): rhs.is(typeid(T)) && equal<T>(*this, rhs).
RealDataEq(this, rhs) ==
  IF RealDataIs(rhs, TypeId(this.type)) THEN equal(this, rhs) ELSE "false"

\* Mutant of Parameter::operator==: any empty side compares unequal.
ParameterEq_EmptyUnequal(p, q) ==
  IF empty(p) \/ empty(q) THEN "false" ELSE RealDataEq(heap[ptr[p]], heap[ptr[q]])

\* Parameter::operator==(rhs): false if exactly one side is empty, true if both
\* are, else the held cells' comparison.
ParameterEq(p, q) ==
  IF empty(p) \/ empty(q)
  THEN (IF empty(p) /\ empty(q) THEN "true" ELSE "false")
  ELSE RealDataEq(heap[ptr[p]], heap[ptr[q]])

\* Parameter::as<T>(): TypeMismatch when is<T>() is false, else a reference to
\* the held value (the cell itself, no copy).
As(p, T) ==
  IF ParameterIs(p, T)
  THEN [res |-> "ok", ref |-> ptr[p]]
  ELSE [res |-> "TypeMismatch", ref |-> NULL]

\* Any::copy(): a new RealData<T> holding a copy of the value made by T's own
\* copy constructor; copying a shared_ptr copies the pointer, not the blob.
RealDataCopy(this) == [type |-> this.type, val |-> this.val]

(***************************************************************************)
(* Mutators.                                                               *)
(***************************************************************************)
\* The heap after Parameter::clear() on p: delete ptr (a no-op on nullptr).
ClearedHeap(p) ==
  IF ptr[p] = NULL THEN heap ELSE [heap EXCEPT ![ptr[p]] = FREE]

\* copyLink is a history variable: the two containers of which one was made as
\* a copy of the other, until either is constructed, assigned, cleared or
\* destroyed ({} when there is no such pair).

\* Whether clear() on p deletes a cell that was deleted before.
ClearFaults(p) == ptr[p] # NULL /\ ~Allocated(ptr[p])

Op(o, p, q, T, v, r) == [op |-> o, p |-> p, q |-> q, T |-> T, v |-> v, res |-> r]

\* Parameter(): an empty container.
ConstructEmpty(p) ==
  /\ ~alive[p]
  /\ alive' = [alive EXCEPT ![p] = TRUE]
  /\ ptr' = [ptr EXCEPT ![p] = NULL]
  /\ last' = Op("construct_empty", p, p, "none", 0, "none")
  /\ UNCHANGED <<heap, blobs, doubleFree>>
  /\ copyLink' = (IF p \in copyLink THEN {} ELSE copyLink)
  /\ UNCHANGED othersP

\* Parameter(T&& value): ptr = new RealData<decay<T>>(value).
Construct(p, T, v) ==
  /\ ~alive[p]
  /\ \E c \in Cells :
       /\ ~Allocated(c)
       /\ heap' = [heap EXCEPT ![c] = [type |-> Underlying(T), val |-> v]]
       /\ ptr' = [ptr EXCEPT ![p] = c]
  /\ alive' = [alive EXCEPT ![p] = TRUE]
  /\ last' = Op("construct", p, p, T, v, "none")
  /\ UNCHANGED <<blobs, doubleFree>>
  /\ copyLink' = (IF p \in copyLink THEN {} ELSE copyLink)
  /\ UNCHANGED othersP

\* The effect of Parameter::operator=(const Parameter& q) on ptr and heap:
\* clear(), then ptr = q.ptr->copy() unless q is empty.
CopyFrom(p, q) ==
  LET h == ClearedHeap(p)
  IN  IF empty(q)
      THEN /\ heap' = h
           /\ ptr' = [ptr EXCEPT ![p] = NULL]
      ELSE \E c \in Cells :
             /\ h[c].type = "free"
             /\ heap' = [h EXCEPT ![c] = RealDataCopy(heap[ptr[q]])]
             /\ ptr' = [ptr EXCEPT ![p] = c]

\* Parameter(const Parameter& q): *this = q.
CopyConstruct(p, q) ==
  /\ ~alive[p] /\ alive[q] /\ p # q
  /\ CopyFrom(p, q)
  /\ alive' = [alive EXCEPT ![p] = TRUE]
  /\ last' = Op("copy", p, q, "none", 0, "none")
  /\ UNCHANGED <<blobs, doubleFree>>
  /\ copyLink' = {p, q}
  /\ UNCHANGED othersP

\* p = q for two distinct containers.
CopyAssign(p, q) ==
  /\ alive[p] /\ alive[q] /\ p # q
  /\ CopyFrom(p, q)
  /\ doubleFree' = (doubleFree \/ ClearFaults(p))
  /\ last' = Op("copy", p, q, "none", 0, "none")
  /\ UNCHANGED <<alive, blobs>>
  /\ copyLink' = {p, q}
  /\ UNCHANGED othersP

\* p = value: the held value is replaced by a RealData<decay<T>>(value).
Assign(p, T, v) ==
  /\ alive[p]
  /\ LET h == ClearedHeap(p)
     IN  \E c \in Cells :
           /\ h[c].type = "free"
           /\ heap' = [h EXCEPT ![c] = [type |-> Underlying(T), val |-> v]]
           /\ ptr' = [ptr EXCEPT ![p] = c]
  /\ doubleFree' = (doubleFree \/ ClearFaults(p))
  /\ last' = Op("assign", p, p, T, v,
                IF empty(p) THEN "was_empty"
                ELSE IF heap[ptr[p]].type = Underlying(T) THEN "same_type"
                ELSE "changed_type")
  /\ UNCHANGED <<alive, blobs>>
  /\ copyLink' = (IF p \in copyLink THEN {} ELSE copyLink)
  /\ UNCHANGED othersP

\* Parameter::clear(): delete ptr; ptr = nullptr.
Clear(p) ==
  /\ alive[p]
  /\ heap' = ClearedHeap(p)
  /\ ptr' = [ptr EXCEPT ![p] = NULL]
  /\ doubleFree' = (doubleFree \/ ClearFaults(p))
  /\ last' = Op("clear", p, p, "none", 0, IF empty(p) THEN "was_empty" ELSE "released")
  /\ UNCHANGED <<alive, blobs>>
  /\ copyLink' = (IF p \in copyLink THEN {} ELSE copyLink)
  /\ UNCHANGED othersP

\* Mutant of ~Parameter: the destructor does not clear.
Destroy_NoClear(p) ==
  /\ alive[p]
  /\ alive' = [alive EXCEPT ![p] = FALSE]
  /\ last' = Op("destroy", p, p, "none", 0, IF empty(p) THEN "was_empty" ELSE "released")
  /\ UNCHANGED <<ptr, heap, blobs, doubleFree>>
  /\ copyLink' = (IF p \in copyLink THEN {} ELSE copyLink)
  /\ UNCHANGED othersP

\* Parameter::~Parameter(): clear().
Destroy(p) ==
  /\ alive[p]
  /\ heap' = ClearedHeap(p)
  /\ ptr' = [ptr EXCEPT ![p] = NULL]
  /\ doubleFree' = (doubleFree \/ ClearFaults(p))
  /\ alive' = [alive EXCEPT ![p] = FALSE]
  /\ last' = Op("destroy", p, p, "none", 0, IF empty(p) THEN "was_empty" ELSE "released")
  /\ UNCHANGED blobs
  /\ copyLink' = (IF p \in copyLink THEN {} ELSE copyLink)
  /\ UNCHANGED othersP

\* A call of p.as<T>() whose result is only read; last keeps the outcome.
AsCall(p, T) ==
  /\ alive[p]
  /\ last' = Op("as", p, p, "none", 0, As(p, T).res)
  /\ UNCHANGED <<alive, ptr, heap, blobs, doubleFree>>
  /\ UNCHANGED copyLink
  /\ UNCHANGED othersP

\* p.as<T>() = v: a write through the returned reference (for a vector this
\* covers push_back and every other change of the held vector).
MutateVia(p, T, v) ==
  /\ alive[p]
  /\ As(p, T).res = "ok"
  /\ heap' = [heap EXCEPT ![As(p, T).ref].val = v]
  /\ last' = Op("mutate", p, p, T, v, "ok")
  /\ UNCHANGED <<alive, ptr, blobs, doubleFree>>
  /\ UNCHANGED copyLink
  /\ UNCHANGED othersP

\* p.as<Blob::Ptr>()->buffer()[..] = b: a write to the blob the held pointer
\* designates.
BlobWrite(p, b) ==
  /\ alive[p]
  /\ As(p, "Blob::Ptr").res = "ok"
  /\ heap[As(p, "Blob::Ptr").ref].val # 0
  /\ blobs' = [blobs EXCEPT ![heap[As(p, "Blob::Ptr").ref].val] = b]
  /\ last' = Op("blobwrite", p, p, "Blob::Ptr", b, "ok")
  /\ UNCHANGED <<alive, ptr, heap, doubleFree>>
  /\ UNCHANGED copyLink
  /\ UNCHANGED othersP

InitP ==
  /\ alive = [p \in Params |-> FALSE]
  /\ ptr = [p \in Params |-> NULL]
  /\ heap = [c \in Cells |-> FREE]
  /\ blobs = [b \in BlobIds |-> 0]
  /\ doubleFree = FALSE
  /\ copyLink = {}
  /\ last = Op("init", "a", "a", "none", 0, "none")

NextP ==
  \/ \E p \in Params : ConstructEmpty(p)
  \/ \E p \in Params, T \in HeldTypes : \E v \in Values(T) : Construct(p, T, v)
  \/ \E p \in Params, q \in Params : CopyConstruct(p, q)
  \/ \E p \in Params, q \in Params : CopyAssign(p, q)
  \/ \E p \in Params, T \in HeldTypes : \E v \in Values(T) : Assign(p, T, v)
  \/ \E p \in Params : Clear(p)
  \/ \E p \in Params : Destroy(p)
  \/ \E p \in Params, T \in QueryTypes : AsCall(p, T)
  \/ \E p \in Params, T \in HeldTypes : \E v \in Values(T) : MutateVia(p, T, v)
  \/ \E p \in Params, b \in Bytes : BlobWrite(p, b)

(***************************************************************************)
(* classification_sample_async: main().  Every call into the engine either  *)
(* returns or throws; what it returns is chosen by the environment.         *)
(***************************************************************************)
\* The image paths main() pushes before anything else.
imageNames == <<"/vendor/etc/openvino/car_resized.bmp">>

\* The shapes getDims() may report.
DimsSet == UNION {[1..r -> 1..MaxDim] : r \in 1..MaxRank}

\* The output maps getOutputsInfo() may report: per output, whether its DataPtr
\* is valid.  A network has at least one output.
OutputMaps == UNION {[1..n -> BOOLEAN] : n \in 1..MaxOutputs}

\* An engine call made at the current position: it is recorded, and it either
\* returns (main goes on at next) or throws (main goes to its catch clauses).
EngineCall(name, ok, next) ==
  /\ trace' = Append(trace, name)
  /\ pc' = IF ok THEN next ELSE "catch"
  /\ thrownBy' = IF ok THEN thrownBy ELSE name

\* throw std::logic_error(what) in main itself.
ThrowLogicError(what) ==
  /\ pc' = "catch"
  /\ thrownBy' = what

ParseArgs ==
  /\ pc = "start"
  /\ IF Len(imageNames) = 0
     THEN ThrowLogicError("No suitable images were found")
     ELSE pc' = "get_plugin" /\ thrownBy' = thrownBy
  /\ UNCHANGED <<trace, ret, nInputs, nImages, outputs, outIdx, firstOutputName,
                 outputDims, total>>
  /\ UNCHANGED othersM

GetPluginByDevice ==
  /\ pc = "get_plugin"
  /\ \E ok \in BOOLEAN : EngineCall("getPluginByDevice", ok, "read_network")
  /\ UNCHANGED <<ret, nInputs, nImages, outputs, outIdx, firstOutputName,
                 outputDims, total>>
  /\ UNCHANGED othersM

ReadNetwork ==
  /\ pc = "read_network"
  /\ \E ok \in BOOLEAN : EngineCall("ReadNetwork", ok, "read_weights")
  /\ UNCHANGED <<ret, nInputs, nImages, outputs, outIdx, firstOutputName,
                 outputDims, total>>
  /\ UNCHANGED othersM

ReadWeights ==
  /\ pc = "read_weights"
  /\ \E ok \in BOOLEAN : EngineCall("ReadWeights", ok, "get_network")
  /\ UNCHANGED <<ret, nInputs, nImages, outputs, outIdx, firstOutputName,
                 outputDims, total>>
  /\ UNCHANGED othersM

GetNetwork ==
  /\ pc = "get_network"
  /\ \E ok \in BOOLEAN : EngineCall("getNetwork", ok, "get_inputs")
  /\ UNCHANGED <<ret, nInputs, nImages, outputs, outIdx, firstOutputName,
                 outputDims, total>>
  /\ UNCHANGED othersM

\* InputsDataMap inputInfo(network.getInputsInfo()); size() != 1 throws.
GetInputsInfo ==
  /\ pc = "get_inputs"
  /\ trace' = Append(trace, "getInputsInfo")
  /\ \E ok \in BOOLEAN, n \in 0..MaxInputs :
       IF ~ok
       THEN pc' = "catch" /\ thrownBy' = "getInputsInfo" /\ nInputs' = nInputs
       ELSE /\ nInputs' = n
            /\ IF n # 1
               THEN ThrowLogicError("Sample supports topologies with 1 input only")
               ELSE pc' = "set_input_precision" /\ thrownBy' = thrownBy
  /\ UNCHANGED <<ret, nImages, outputs, outIdx, firstOutputName, outputDims, total>>
  /\ UNCHANGED othersM

SetInputPrecision ==
  /\ pc = "set_input_precision"
  /\ \E ok \in BOOLEAN : EngineCall("setPrecision(U8)", ok, "set_input_layout")
  /\ UNCHANGED <<ret, nInputs, nImages, outputs, outIdx, firstOutputName,
                 outputDims, total>>
  /\ UNCHANGED othersM

SetInputLayout ==
  /\ pc = "set_input_layout"
  /\ \E ok \in BOOLEAN : EngineCall("setLayout(NCHW)", ok, "read_images")
  /\ UNCHANGED <<ret, nInputs, nImages, outputs, outIdx, firstOutputName,
                 outputDims, total>>
  /\ UNCHANGED othersM

\* The loop over imageNames (one name): no reader, a reader without data, or
\* data that is pushed to imagesData; the reader may also throw.
ReadImages ==
  /\ pc = "read_images"
  /\ \E r \in {"no_reader", "no_data", "data", "throw"} :
       /\ trace' = IF r = "no_reader" THEN Append(trace, "FormatReader")
                   ELSE Append(Append(trace, "FormatReader"), "getData")
       /\ nImages' = IF r = "data" THEN Len(imageNames) ELSE 0
       /\ pc' = IF r = "throw" THEN "catch" ELSE "check_images"
       /\ thrownBy' = IF r = "throw" THEN "getData" ELSE thrownBy
  /\ UNCHANGED <<ret, nInputs, outputs, outIdx, firstOutputName, outputDims, total>>
  /\ UNCHANGED othersM

CheckImages ==
  /\ pc = "check_images"
  /\ IF nImages = 0
     THEN ThrowLogicError("Valid input images were not found!")
     ELSE pc' = "set_batch_size" /\ thrownBy' = thrownBy
  /\ UNCHANGED <<trace, ret, nInputs, nImages, outputs, outIdx, firstOutputName,
                 outputDims, total>>
  /\ UNCHANGED othersM

SetBatchSize ==
  /\ pc = "set_batch_size"
  /\ \E ok \in BOOLEAN : EngineCall("setBatchSize", ok, "get_batch_size")
  /\ UNCHANGED <<ret, nInputs, nImages, outputs, outIdx, firstOutputName,
                 outputDims, total>>
  /\ UNCHANGED othersM

GetBatchSize ==
  /\ pc = "get_batch_size"
  /\ \E ok \in BOOLEAN : EngineCall("getBatchSize", ok, "get_outputs")
  /\ UNCHANGED <<ret, nInputs, nImages, outputs, outIdx, firstOutputName,
                 outputDims, total>>
  /\ UNCHANGED othersM

GetOutputsInfo ==
  /\ pc = "get_outputs"
  /\ \E ok \in BOOLEAN, outs \in OutputMaps :
       /\ EngineCall("getOutputsInfo", ok, "output_loop")
       /\ outputs' = IF ok THEN outs ELSE outputs
  /\ outIdx' = 1
  /\ UNCHANGED <<ret, nInputs, nImages, firstOutputName, outputDims, total>>
  /\ UNCHANGED othersM

\* One iteration of the loop over outputInfo; output i is named i, 0 is the
\* empty name.  An invalid DataPtr returns 1 at once.
OutputItem ==
  /\ pc = "output_loop"
  /\ outIdx <= Len(outputs)
  /\ firstOutputName' = IF firstOutputName = 0 THEN outIdx ELSE firstOutputName
  /\ IF ~outputs[outIdx]
     THEN /\ ret' = 1
          /\ pc' = "done"
          /\ UNCHANGED <<trace, thrownBy, outIdx>>
     ELSE /\ \E ok \in BOOLEAN : EngineCall("setPrecision(FP32)", ok, "output_loop")
          /\ outIdx' = outIdx + 1
          /\ ret' = ret
  /\ UNCHANGED <<nInputs, nImages, outputs, outputDims, total>>
  /\ UNCHANGED othersM

\* outputInfo.begin()->second->getDims(), after the loop.
GetOutputDims ==
  /\ pc = "output_loop"
  /\ outIdx > Len(outputs)
  /\ \E ok \in BOOLEAN, d \in DimsSet :
       /\ EngineCall("getDims", ok, "validate_output")
       /\ outputDims' = IF ok THEN d ELSE outputDims
  /\ UNCHANGED <<ret, nInputs, nImages, outputs, outIdx, firstOutputName, total>>
  /\ UNCHANGED othersM

\* outputCorrect as main computes it.
\* Mutant of outputCorrect: any 4-D output passes.
outputCorrect_AnyRank4(dims) ==
  Len(dims) = 2 \/ Len(dims) = 4

outputCorrect(dims) ==
  IF Len(dims) = 2 THEN TRUE
  ELSE IF Len(dims) = 4 THEN dims[3] = 1 /\ dims[4] = 1
  ELSE FALSE

ValidateOutput ==
  /\ pc = "validate_output"
  /\ trace' = Append(trace, "outputCorrect")
  /\ IF ~outputCorrect(outputDims)
     THEN ret' = 1 /\ pc' = "done"
     ELSE ret' = ret /\ pc' = "load_network"
  /\ UNCHANGED <<thrownBy, nInputs, nImages, outputs, outIdx, firstOutputName,
                 outputDims, total>>
  /\ UNCHANGED othersM

\* plugin.LoadNetwork(network, config); afterwards outputInfo = {}.
LoadNetwork ==
  /\ pc = "load_network"
  /\ \E ok \in BOOLEAN :
       /\ EngineCall("LoadNetwork", ok, "create_infer_request")
       /\ outputs' = IF ok THEN <<>> ELSE outputs
  /\ UNCHANGED <<ret, nInputs, nImages, outIdx, firstOutputName, outputDims, total>>
  /\ UNCHANGED othersM

CreateInferRequest ==
  /\ pc = "create_infer_request"
  /\ \E ok \in BOOLEAN : EngineCall("CreateInferRequest", ok, "fill_input")
  /\ UNCHANGED <<ret, nInputs, nImages, outputs, outIdx, firstOutputName,
                 outputDims, total>>
  /\ UNCHANGED othersM

\* The loop over inputInfo (one input): GetBlob, then the blob is filled from
\* imagesData; afterwards inputInfo = {}.
FillInput ==
  /\ pc = "fill_input"
  /\ \E ok \in BOOLEAN :
       /\ trace' = IF ok THEN Append(Append(trace, "GetBlob(input)"), "fill")
                   ELSE Append(trace, "GetBlob(input)")
       /\ pc' = IF ok THEN "infer" ELSE "catch"
       /\ thrownBy' = IF ok THEN thrownBy ELSE "GetBlob(input)"
       /\ nInputs' = IF ok THEN 0 ELSE nInputs
  /\ UNCHANGED <<ret, nImages, outputs, outIdx, firstOutputName, outputDims, total>>
  /\ UNCHANGED othersM

\* The timing loop, one iteration: inferRequest.Infer(); total is 0 when the
\* measured time is below epsilon and 1 otherwise.
Infer ==
  /\ pc = "infer"
  /\ \E ok \in BOOLEAN, t \in {0, 1} :
       /\ EngineCall("Infer", ok, "process_output")
       /\ total' = IF ok THEN t ELSE total
  /\ UNCHANGED <<ret, nInputs, nImages, outputs, outIdx, firstOutputName, outputDims>>
  /\ UNCHANGED othersM

\* inferRequest.GetBlob(firstOutputName), then the test of total.
ProcessOutput ==
  /\ pc = "process_output"
  /\ \E ok \in BOOLEAN :
       /\ trace' = Append(trace, "GetBlob(output)")
       /\ thrownBy' = IF ok THEN thrownBy ELSE "GetBlob(output)"
       /\ pc' = IF ~ok THEN "catch" ELSE IF total = 0 THEN "done" ELSE "return_ok"
       /\ ret' = IF ok /\ total = 0 THEN 1 ELSE ret
  /\ UNCHANGED <<nInputs, nImages, outputs, outIdx, firstOutputName, outputDims, total>>
  /\ UNCHANGED othersM

\* The end of main: return 0.
ReturnOk ==
  /\ pc = "return_ok"
  /\ ret' = 0
  /\ pc' = "done"
  /\ UNCHANGED <<trace, thrownBy, nInputs, nImages, outputs, outIdx,
                 firstOutputName, outputDims, total>>
  /\ UNCHANGED othersM

\* catch (const std::exception&) and catch (...): return 1.
Catch ==
  /\ pc = "catch"
  /\ ret' = 1
  /\ pc' = "done"
  /\ UNCHANGED <<trace, thrownBy, nInputs, nImages, outputs, outIdx,
                 firstOutputName, outputDims, total>>
  /\ UNCHANGED othersM

(***************************************************************************)
(* Precision::hasStorageType<T>(typeName).                                 *)
(***************************************************************************)
\* Precision::ePrecision: the values the switch names, and three it does not.
PrecisionValues ==
  {"UNSPECIFIED", "MIXED", "FP32", "FP16", "Q78", "I16", "U8", "I8", "U16",
   "I32", "I64", "BIN", "BOOL", "CUSTOM"}

\* The storage types hasStorageType is instantiated for.
StorageTypes ==
  {"float", "int", "unsigned char", "short", "unsigned short", "signed char",
   "long", "unsigned long"}

\* The data models the file is built for: long is 64 bits wide or 32.
DataModels == {"LP64", "ILP32"}

\* sizeof(T).
SizeOf(T, dm) ==
  CASE T \in {"unsigned char", "signed char"} -> 1
    [] T \in {"short", "unsigned short"} -> 2
    [] T \in {"float", "int"} -> 4
    [] T \in {"long", "unsigned long"} -> IF dm = "LP64" THEN 8 ELSE 4

\* The type a fixed-width typedef denotes.
FixedWidth(y, dm) ==
  CASE y = "float" -> "float"
    [] y = "int8_t" -> "signed char"
    [] y = "uint8_t" -> "unsigned char"
    [] y = "int16_t" -> "short"
    [] y = "uint16_t" -> "unsigned short"
    [] y = "int32_t" -> "int"
    [] y = "int64_t" -> IF dm = "LP64" THEN "long" ELSE "long long"

\* std::is_same<T, y>().
IsSame(T, y, dm) == T = FixedWidth(y, dm)

\* typeid(T).name().
TypeidName(T) ==
  CASE T = "float" -> "f"
    [] T = "int" -> "i"
    [] T = "unsigned char" -> "h"
    [] T = "short" -> "s"
    [] T = "unsigned short" -> "t"
    [] T = "signed char" -> "a"
    [] T = "long" -> "l"
    [] T = "unsigned long" -> "m"

\* typeName == nullptr.
NullName == "nullptr"

\* areSameStrings(l, r): the two C strings hold the same characters.
areSameStrings(l, r) == l = r

\* The results size() may give (in bytes), the names name() may give, and the
\* typeName arguments.
Sizes == {0, 1, 2, 4, 8}
PrecisionNames == {"UNSPECIFIED", "i", "custom"}
TypeNames == {NullName, "i", "custom"}

\* Mutant of hasStorageType: the size test is made for BIN too.
hasStorageType_SizeTestForBin(prec, T, typeName, dm) ==
  IF prec.sizeThrows THEN FALSE
  ELSE IF SizeOf(T, dm) # prec.size THEN FALSE
  ELSE CASE prec.value = "FP32" -> IsSame(T, "float", dm)
         [] prec.value = "FP16" -> IsSame(T, "int16_t", dm) \/ IsSame(T, "uint16_t", dm)
         [] prec.value = "I16" -> IsSame(T, "int16_t", dm)
         [] prec.value = "I32" -> IsSame(T, "int32_t", dm)
         [] prec.value = "I64" -> IsSame(T, "int64_t", dm)
         [] prec.value = "U16" -> IsSame(T, "uint16_t", dm)
         [] prec.value = "U8" -> IsSame(T, "uint8_t", dm)
         [] prec.value = "I8" -> IsSame(T, "int8_t", dm)
         [] prec.value = "BOOL" -> IsSame(T, "uint8_t", dm)
         [] prec.value = "Q78" -> IsSame(T, "int16_t", dm) \/ IsSame(T, "uint16_t", dm)
         [] prec.value = "BIN" -> IsSame(T, "int8_t", dm) \/ IsSame(T, "uint8_t", dm)
         [] OTHER -> areSameStrings(prec.name,
                                    IF typeName = NullName THEN TypeidName(T) ELSE typeName)

\* Precision::hasStorageType<T>(typeName) on a precision prec = [value, size,
\* sizeThrows, name]: unless the value is BIN, size() is called (an exception
\* from it is caught and gives false) and compared with sizeof(T); then the
\* switch.
hasStorageType(prec, T, typeName, dm) ==
  IF prec.value # "BIN" /\ prec.sizeThrows THEN FALSE
  ELSE IF prec.value # "BIN" /\ SizeOf(T, dm) # prec.size THEN FALSE
  ELSE CASE prec.value = "FP32" -> IsSame(T, "float", dm)
         [] prec.value = "FP16" -> IsSame(T, "int16_t", dm) \/ IsSame(T, "uint16_t", dm)
         [] prec.value = "I16" -> IsSame(T, "int16_t", dm)
         [] prec.value = "I32" -> IsSame(T, "int32_t", dm)
         [] prec.value = "I64" -> IsSame(T, "int64_t", dm)
         [] prec.value = "U16" -> IsSame(T, "uint16_t", dm)
         [] prec.value = "U8" -> IsSame(T, "uint8_t", dm)
         [] prec.value = "I8" -> IsSame(T, "int8_t", dm)
         [] prec.value = "BOOL" -> IsSame(T, "uint8_t", dm)
         [] prec.value = "Q78" -> IsSame(T, "int16_t", dm) \/ IsSame(T, "uint16_t", dm)
         [] prec.value = "BIN" -> IsSame(T, "int8_t", dm) \/ IsSame(T, "uint8_t", dm)
         [] OTHER -> areSameStrings(prec.name,
                                    IF typeName = NullName THEN TypeidName(T) ELSE typeName)

\* The calls of hasStorageType that can be made.
HsCalls ==
  [pc : {"call"}, value : PrecisionValues, size : Sizes, sizeThrows : BOOLEAN,
   name : PrecisionNames, T : StorageTypes, typeName : TypeNames, dm : DataModels,
   result : {FALSE}]

HasStorageTypeCall ==
  /\ hs.pc = "call"
  /\ hs' = [hs EXCEPT !.pc = "returned",
                      !.result = hasStorageType(hs, hs.T, hs.typeName, hs.dm)]
  /\ UNCHANGED othersH

(***************************************************************************)
(* The input-fill loop of main() (section 6, "Prepare input"), statement   *)
(* by statement.  The loop over inputInfo has one item (the input count    *)
(* was tested), the input is 4-D (layout NCHW) and its batch is the number *)
(* of images given to setBatchSize.  All index arithmetic is below the     *)
(* size of the allocated buffer, so size_t never wraps.                    *)
(***************************************************************************)
\* The content of a buffer element nothing was stored into.
Unwritten == <<"unwritten">>

\* imagesData.at(image_id).get()[k]: the element is named by where it comes
\* from.
SourceElement(image_id, k) == <<image_id, k>>

\* The size (in elements) of the blob of dims <<N, C, H, W>>.
BufferSize(dims) == dims[1] * dims[2] * dims[3] * dims[4]

\* Mutant of DstIndex: the destination keeps the source's interleaved order.
DstIndex_Interleaved(image_id, pid, ch, image_size, num_channels) ==
  image_id * image_size * num_channels + pid * num_channels + ch

\* The subscript of data[] in the store.
DstIndex(image_id, pid, ch, image_size, num_channels) ==
  image_id * image_size * num_channels + ch * image_size + pid

\* The subscript of the image's data in the store.
SrcIndex(pid, ch, num_channels) == pid * num_channels + ch

\* The states the loop can be entered in: one to MaxImages images, a blob of
\* dims <<images, C, H, W>> with nothing stored yet.
FillEntries ==
  {[pc |-> "get_blob", images |-> n, dims |-> <<n, c, h, w>>,
    num_channels |-> 0, image_size |-> 0, image_id |-> 0, pid |-> 0, ch |-> 0,
    data |-> [i \in 0..(BufferSize(<<n, c, h, w>>) - 1) |-> Unwritten],
    writes |-> [i \in 0..(BufferSize(<<n, c, h, w>>) - 1) |-> 0],
    outside |-> {}] :
   n \in 1..MaxImages, c \in 1..MaxChannels, h \in 1..MaxHeight, w \in 1..MaxWidth}

\* GetBlob, getDims, num_channels = dims[1], image_size = dims[3] * dims[2],
\* data = buffer; image_id = 0.
FillGetBlob ==
  /\ fl.pc = "get_blob"
  /\ fl' = [fl EXCEPT !.pc = "image_loop",
                      !.num_channels = fl.dims[2],
                      !.image_size = fl.dims[4] * fl.dims[3],
                      !.image_id = 0]
  /\ UNCHANGED othersF

\* for (image_id = 0; image_id < imagesData.size(); ++image_id): the test.
FillImageLoop ==
  /\ fl.pc = "image_loop"
  /\ fl' = IF fl.image_id < fl.images
           THEN [fl EXCEPT !.pc = "pixel_loop", !.pid = 0]
           ELSE [fl EXCEPT !.pc = "done"]
  /\ UNCHANGED othersF

\* for (pid = 0; pid < image_size; pid++): the test; at its end ++image_id.
FillPixelLoop ==
  /\ fl.pc = "pixel_loop"
  /\ fl' = IF fl.pid < fl.image_size
           THEN [fl EXCEPT !.pc = "channel_loop", !.ch = 0]
           ELSE [fl EXCEPT !.pc = "image_loop", !.image_id = fl.image_id + 1]
  /\ UNCHANGED othersF

\* The store data[...] = imagesData.at(image_id).get()[...], then ++ch.  A
\* store outside the buffer is recorded in outside.
FillStore ==
  /\ fl.pc = "channel_loop"
  /\ fl.ch < fl.num_channels
  /\ LET d == DstIndex(fl.image_id, fl.pid, fl.ch, fl.image_size, fl.num_channels)
         v == SourceElement(fl.image_id, SrcIndex(fl.pid, fl.ch, fl.num_channels))
     IN  fl' = IF d \in DOMAIN fl.data
               THEN [fl EXCEPT !.data[d] = v, !.writes[d] = @ + 1, !.ch = fl.ch + 1]
               ELSE [fl EXCEPT !.outside = @ \cup {d}, !.ch = fl.ch + 1]
  /\ UNCHANGED othersF

\* The channel loop's test fails: pid++.
FillChannelsDone ==
  /\ fl.pc = "channel_loop"
  /\ fl.ch >= fl.num_channels
  /\ fl' = [fl EXCEPT !.pc = "pixel_loop", !.pid = fl.pid + 1]
  /\ UNCHANGED othersF

IdleF == fl = [pc |-> "idle"]

InitF == fl \in FillEntries

NextF ==
  \/ FillGetBlob
  \/ FillImageLoop
  \/ FillPixelLoop
  \/ FillStore
  \/ FillChannelsDone

IdleH == hs = [pc |-> "idle"]

InitH == hs \in HsCalls

NextH == HasStorageTypeCall

InitM ==
  /\ pc = "start"
  /\ trace = <<>>
  /\ ret = -1
  /\ thrownBy = "none"
  /\ nInputs = 0
  /\ nImages = 0
  /\ outputs = <<>>
  /\ outIdx = 1
  /\ firstOutputName = 0
  /\ outputDims = <<>>
  /\ total = 0

NextM ==
  \/ ParseArgs
  \/ GetPluginByDevice
  \/ ReadNetwork
  \/ ReadWeights
  \/ GetNetwork
  \/ GetInputsInfo
  \/ SetInputPrecision
  \/ SetInputLayout
  \/ ReadImages
  \/ CheckImages
  \/ SetBatchSize
  \/ GetBatchSize
  \/ GetOutputsInfo
  \/ OutputItem
  \/ GetOutputDims
  \/ ValidateOutput
  \/ LoadNetwork
  \/ CreateInferRequest
  \/ FillInput
  \/ Infer
  \/ ProcessOutput
  \/ ReturnOk
  \/ Catch

vars == <<varsP, varsM, varsH, varsF>>

Init == InitP /\ InitM /\ IdleH /\ IdleF

Next == NextP

Spec == Init /\ [][Next]_vars

SpecMain == Init /\ [][NextM]_vars

InitPrecision == InitP /\ InitM /\ InitH /\ IdleF

SpecPrecision == InitPrecision /\ [][NextH]_vars

InitFill == InitP /\ InitM /\ IdleH /\ InitF

SpecFill == InitFill /\ [][NextF]_vars

(***************************************************************************)
(* Properties of the Parameter container.                                  *)
(***************************************************************************)
\* What a container holds, read off the heap: the concrete type of its cell.
HoldsExactly(p, T) == ptr[p] # NULL /\ heap[ptr[p]].type = Underlying(T)

\* as<T>() on p yields the value v, by a reference to p's own cell.
Yields(p, T, v) ==
  /\ As(p, T).res = "ok"
  /\ As(p, T).ref = ptr[p]
  /\ heap[As(p, T).ref].val = v

SameHeld(p, q) ==
  /\ ~empty(p) /\ ~empty(q)
  /\ heap[ptr[p]].type = heap[ptr[q]].type
  /\ heap[ptr[p]].val = heap[ptr[q]].val

\* The held type and value of p ("empty" for none).
Held(p) == IF empty(p) THEN [type |-> "empty", val |-> 0] ELSE heap[ptr[p]]

\* Everything that can be read through p: the held type and value and, for a
\* held Blob::Ptr, the contents of the blob it designates.
View(p) ==
  IF ~empty(p) /\ heap[ptr[p]].type = "std::shared_ptr<Blob>" /\ heap[ptr[p]].val # 0
  THEN [held |-> Held(p), blob |-> blobs[heap[ptr[p]].val]]
  ELSE [held |-> Held(p), blob |-> 0]

\* Every allocated cell is owned by exactly one container, and every container's
\* pointer is null or designates an allocated cell.
ExclusiveOwnership ==
  /\ \A c \in Cells : Allocated(c) => Cardinality({p \in Params : ptr[p] = c}) = 1
  /\ \A p \in Params : ptr[p] # NULL => Allocated(ptr[p])

\* C1: in every state reached by construct / assign / copy / clear / destroy,
\* for every container and every type T, is<T>() is true iff the container holds
\* a value whose concrete type is exactly T (an int is no unsigned long and no
\* float); is<T>() reads only a null test and a live cell, so it cannot fault.
C1_IsIffExactType ==
  \A p \in Params :
    /\ ptr[p] # NULL => Allocated(ptr[p])
    /\ \A T \in QueryTypes :
         /\ ParameterIs(p, T) \in BOOLEAN
         /\ ParameterIs(p, T) <=> HoldsExactly(p, T)

C1_Witness ==
  /\ last.op = "copy"
  /\ HoldsExactly(last.p, "int")
  /\ ParameterIs(last.p, "int")
  /\ ~ParameterIs(last.p, "unsigned long")
  /\ ~ParameterIs(last.p, "float")

\* C2: for two non-empty containers, a == b is "true" iff both hold the same
\* concrete type and equal values, and "false" otherwise; it is never the
\* failure of a value comparison across types (the type test comes first).
C2_EqIffSameTypeAndValue ==
  \A p \in Params, q \in Params :
    (~empty(p) /\ ~empty(q)) =>
      ParameterEq(p, q) = (IF SameHeld(p, q) THEN "true" ELSE "false")

C2_Witness ==
  /\ HoldsExactly("a", "int") /\ HoldsExactly("b", "float")
  /\ heap[ptr["a"]].val = heap[ptr["b"]].val
  /\ ParameterEq("a", "b") = "false"
  /\ ParameterEq("b", "a") = "false"

\* C3: equality with empty containers: two empty containers compare equal, an
\* empty and a non-empty one compare unequal in either operand order, and the
\* comparison always has a result.
C3_EmptyEquality ==
  \A p \in Params, q \in Params :
    (alive[p] /\ alive[q]) =>
      /\ ParameterEq(p, q) \in {"true", "false"}
      /\ (empty(p) /\ empty(q)) => ParameterEq(p, q) = "true"
      /\ (empty(p) /\ ~empty(q)) =>
           (ParameterEq(p, q) = "false" /\ ParameterEq(q, p) = "false")

C3_Witness ==
  /\ alive["a"] /\ alive["b"]
  /\ last.op = "clear" /\ last.res = "released" /\ last.p = "a"
  /\ ~empty("b")
  /\ ParameterEq("a", "b") = "false" /\ ParameterEq("b", "a") = "false"
  /\ ParameterEq("a", "a") = "true"

\* C4: a call of as<T>() fails with TypeMismatch exactly when the container
\* does not hold a value of exactly type T (so always on an empty container),
\* and a failed call changes neither the pointer nor any cell nor any blob.
C4_AsFailsIffNotHeld ==
  [][ last'.op = "as" =>
        /\ \A T \in QueryTypes :
             AsCall(last'.p, T) =>
               ((last'.res = "TypeMismatch") <=> ~HoldsExactly(last'.p, T))
        /\ last'.res = "TypeMismatch" =>
             (ptr' = ptr /\ heap' = heap /\ blobs' = blobs /\ alive' = alive)
    ]_vars

C4_Witness ==
  /\ last.op = "as" /\ last.res = "TypeMismatch"
  /\ last.p = "a" /\ empty("a")
  /\ ~empty("b")

\* C5: after clear() (and after the destructor, which calls it) the container is
\* empty and is<T>() is false for every T; clearing or destroying an empty
\* container changes no cell and no pointer; no cell is ever deleted twice.
C5_ClearEmptiesAndIsIdempotent ==
  /\ [](/\ last.op \in {"clear", "destroy"} =>
             (empty(last.p) /\ \A T \in QueryTypes : ~ParameterIs(last.p, T))
        /\ ~doubleFree)
  /\ [][\A p \in Params :
          ((Clear(p) \/ Destroy(p)) /\ empty(p)) => (heap' = heap /\ ptr' = ptr)
       ]_vars

C5_Witness ==
  /\ last.op = "destroy" /\ last.res = "was_empty"
  /\ empty(last.p) /\ ~alive[last.p]
  /\ \E c \in Cells : Allocated(c)

\* The steps that write to container p or through a reference obtained from it.
WritesTo(p) ==
  /\ last'.p = p
  /\ last'.op \in {"construct_empty", "construct", "copy", "assign", "clear",
                   "destroy", "mutate", "blobwrite"}

C7_RoundTripByReference ==
  /\ [](last.op \in {"construct", "assign", "mutate"} =>
          /\ Yields(last.p, last.T, last.v)
          /\ \A q \in Params \ {last.p} :
               HoldsExactly(q, last.T) =>
                 ((ParameterEq(last.p, q) = "true") <=> (heap[ptr[q]].val = last.v)))
  /\ [][last'.op = "mutate" =>
          /\ ptr' = ptr
          /\ \A c \in Cells \ {ptr[last'.p]} : heap'[c] = heap[c]]_vars

C7_Witness ==
  /\ last.op = "mutate" /\ last.T = "std::vector<int>" /\ last.p = "b"
  /\ Yields("b", "std::vector<int>", <<1>>)
  /\ HoldsExactly("a", "std::vector<int>") /\ heap[ptr["a"]].val = <<>>
  /\ ParameterEq("a", "b") = "false"

\* C8: a container holds at most one type (is<T>() and is<U>() are both true
\* only for two spellings of one type); after assigning a value of type U,
\* is<U>() is true and is<T>() is false for every other type T; the replaced
\* cell is released (no allocated cell is left without its one owner); after
\* clear() or destruction the container is empty.
C8_OneTypeAtATime ==
  /\ \A p \in Params, T \in QueryTypes, U \in QueryTypes :
       (ParameterIs(p, T) /\ ParameterIs(p, U)) => Underlying(T) = Underlying(U)
  /\ last.op = "assign" =>
       /\ ParameterIs(last.p, last.T)
       /\ \A T \in QueryTypes :
            Underlying(T) # Underlying(last.T) => ~ParameterIs(last.p, T)
  /\ ExclusiveOwnership
  /\ last.op \in {"clear", "destroy"} => empty(last.p)

C8_Witness ==
  /\ last.op = "assign" /\ last.res = "changed_type" /\ last.T = "uint32_t"
  /\ ParameterIs(last.p, "unsigned int") /\ ParameterIs(last.p, "uint32_t")
  /\ ~ParameterIs(last.p, "int")

(***************************************************************************)
(* Properties of the sample's main().                                      *)
(***************************************************************************)
Count(e) == Cardinality({i \in 1..Len(trace) : trace[i] = e})

\* The engine calls of a complete run over a network with k outputs.
PipelineTrace(k) ==
  <<"getPluginByDevice", "ReadNetwork", "ReadWeights", "getNetwork",
    "getInputsInfo", "setPrecision(U8)", "setLayout(NCHW)", "FormatReader",
    "getData", "setBatchSize", "getBatchSize", "getOutputsInfo">>
  \o [i \in 1..k |-> "setPrecision(FP32)"]
  \o <<"getDims", "outputCorrect", "LoadNetwork", "CreateInferRequest",
       "GetBlob(input)", "fill", "Infer", "GetBlob(output)">>

\* main returned 0 after the complete pipeline, in its fixed order, with Infer
\* called once.
ZeroOnlyAfterPipeline ==
  ret = 0 =>
    /\ \E k \in 1..MaxOutputs : trace = PipelineTrace(k)
    /\ Count("Infer") = 1
    /\ thrownBy = "none"
    /\ Len(outputDims) = 2
         \/ (Len(outputDims) = 4 /\ outputDims[3] = 1 /\ outputDims[4] = 1)
    /\ total # 0

\* main ends with 0 or 1, and a run that returned 1 threw (an engine call, an
\* input count other than 1, no image data), or met an invalid output pointer,
\* or output dims that are neither 2-D nor 4-D with H = W = 1, or a zero total.
OneOnFailure ==
  /\ pc = "done" => ret \in {0, 1}
  /\ ret = 1 =>
       \/ thrownBy # "none"
       \/ \E i \in 1..Len(outputs) : ~outputs[i]
       \/ /\ Count("outputCorrect") = 1 /\ Count("LoadNetwork") = 0
          /\ ~(Len(outputDims) = 2
               \/ (Len(outputDims) = 4 /\ outputDims[3] = 1 /\ outputDims[4] = 1))
       \/ Count("Infer") = 1 /\ total = 0

\* C9 as stated: 0 only after the complete pipeline in its order, and every
\* run that returns 1 either did not invoke Infer or Infer threw.
C9_OneOnlyWithoutSuccessfulInfer ==
  /\ ZeroOnlyAfterPipeline
  /\ OneOnFailure
  /\ ret = 1 => (Count("Infer") = 0 \/ thrownBy = "Infer")

\* C9 amended: 0 only after the complete pipeline in its order; every other
\* run returns 1 for one of the listed causes; Infer is invoked at most once;
\* a run that returns 1 did not invoke Infer, or Infer threw, or Infer returned
\* and then the output GetBlob threw or the measured total was zero.
C9_ReturnValueAndOrder ==
  /\ ZeroOnlyAfterPipeline
  /\ OneOnFailure
  /\ Count("Infer") <= 1
  /\ ret = 1 =>
       \/ Count("Infer") = 0
       \/ thrownBy = "Infer"
       \/ Count("Infer") = 1 /\ (thrownBy = "GetBlob(output)" \/ total = 0)

C9_Witness ==
  /\ pc = "done" /\ ret = 0
  /\ trace = PipelineTrace(MaxOutputs)
  /\ Len(outputDims) = 4

(***************************************************************************)
(* Properties of Precision::hasStorageType.                                *)
(***************************************************************************)
\* The storage types listed for each precision.
ListedStorage ==
  {<<"FP32", "float">>, <<"FP16", "int16_t">>, <<"FP16", "uint16_t">>,
   <<"Q78", "int16_t">>, <<"Q78", "uint16_t">>, <<"I16", "int16_t">>,
   <<"I32", "int32_t">>, <<"I64", "int64_t">>, <<"U16", "uint16_t">>,
   <<"U8", "uint8_t">>, <<"BOOL", "uint8_t">>, <<"I8", "int8_t">>,
   <<"BIN", "int8_t">>, <<"BIN", "uint8_t">>}

\* C10: hasStorageType<T>() always returns a boolean: false when the precision
\* is not BIN and size() throws or differs from sizeof(T); otherwise, for a
\* listed precision, whether T is one of its listed storage types (BIN without
\* any size test), and for any other precision whether its name equals the
\* type name (typeid(T).name() when the type name is null).
C10_HasStorageTypeTable ==
  hs.pc = "returned" =>
    /\ hs.result \in BOOLEAN
    /\ hs.result =
         IF hs.value # "BIN" /\ (hs.sizeThrows \/ hs.size # SizeOf(hs.T, hs.dm))
         THEN FALSE
         ELSE IF hs.value \in {x[1] : x \in ListedStorage}
         THEN \E x \in ListedStorage : x[1] = hs.value /\ FixedWidth(x[2], hs.dm) = hs.T
         ELSE hs.name = (IF hs.typeName = NullName THEN TypeidName(hs.T) ELSE hs.typeName)

C10_Witness ==
  /\ hs.pc = "returned"
  /\ hs.value = "BIN" /\ hs.T = "signed char" /\ hs.size # SizeOf(hs.T, hs.dm)
  /\ hs.sizeThrows
  /\ hs.result = TRUE

(***************************************************************************)
(* Properties of the input-fill loop.                                      *)
(***************************************************************************)
\* C11: the fill loop turns each image from interleaved into planar layout:
\* when it has ended, for every image_id < N, pid < H*W and ch < C the
\* destination element image_id*H*W*C + ch*H*W + pid holds source element
\* pid*C + ch of image image_id; every index in [0, N*C*H*W) was stored into
\* exactly once, and at no time is an index stored into twice or an index
\* outside that range stored into.
C11_InterleavedToPlanar ==
  fl.pc # "idle" =>
    LET N == fl.images
        C == fl.dims[2]
        H == fl.dims[3]
        W == fl.dims[4]
    IN  /\ fl.outside = {}
        /\ DOMAIN fl.data = 0..(N * C * H * W - 1)
        /\ \A i \in DOMAIN fl.writes : fl.writes[i] <= 1
        /\ fl.pc = "done" =>
             /\ \A i \in 0..(N * C * H * W - 1) : fl.writes[i] = 1
             /\ \A image_id \in 0..(N - 1), pid \in 0..(H * W - 1), ch \in 0..(C - 1) :
                  fl.data[image_id * H * W * C + ch * H * W + pid]
                    = <<image_id, pid * C + ch>>

\* Two images of two channels and at least two pixels have been converted:
\* the second channel of the first pixel of the second image is where the
\* planar layout puts it.
C11_Witness ==
  /\ fl.pc = "done"
  /\ fl.images = 2 /\ fl.dims[2] = 2 /\ fl.dims[3] * fl.dims[4] >= 2
  /\ fl.data[2 * fl.dims[3] * fl.dims[4] + fl.dims[3] * fl.dims[4]] = <<1, 1>>
=============================================================================
